---- MODULE Spec2Model ----
(***************************************************************************)
(* Drag and drop list reordering (egui_dnd fork).                          *)
(*                                                                         *)
(*  - utils.rs  : shift_slice, the strict rotation of a borrowed slice,    *)
(*                and shift_vec, the tolerant move the consumer commits    *)
(*                a completed drag with (its body is not in the sources;   *)
(*                it is taken from the design document).                   *)
(*  - lib.rs    : DragDropUi::list_ui, one call per displayed frame.       *)
(*  - handle.rs : the drag handle, which records drag_delta.               *)
(*                                                                         *)
(* Indices are the program's 0-based indices; TLA+ sequences are 1-based,  *)
(* so the element at index i of a slice s is s[i + 1].                     *)
(***************************************************************************)
EXTENDS Integers, Sequences, FiniteSets, TLC

\* ------------------------------------------------------------------ bounds
\* longest slice / list
MaxLen == 3
\* element values of the slices handed to the rotation primitives
MaxVal == 3
\* how far past the longest slice the indices handed to them may lie
IdxSlack == 2

MaxIdx == MaxLen + IdxSlack

\* longest list the caller hands to list_ui
MaxItems == 3
\* the frames of one session in which the target moved are counted up to
MaxRetargets == 3

Min(a, b) == IF a < b THEN a ELSE b

\* ------------------------------------------------------ Option and slices
None == << >>
Some(x) == << x >>
IsSome(o) == o # None
Unwrap(o) == o[1]

\* every sequence over S of length 0..n
RECURSIVE SeqsUpTo(_, _)
SeqsUpTo(S, n) ==
    IF n = 0 THEN { << >> }
    ELSE LET shorter == SeqsUpTo(S, n - 1)
         IN  shorter \cup { Append(s, x) : s \in { t \in shorter : Len(t) = n - 1 }, x \in S }

\* the element at (0-based) index i
At(s, i) == s[i + 1]

\* slice.get_mut(start..end): the half-open range is a sub-slice iff
\* start <= end and end <= len
get_range_bug_end(start, end, len) == start <= end /\ end < len
get_range(start, end, len) == start <= end /\ end <= len

\* slice.get_mut(start..=end): the inclusive range is the half-open range
\* start..end+1 (end = usize::MAX has no successor and is never in a slice)
get_range_inclusive(start, end, len) == get_range(start, end + 1, len)

\* [T]::rotate_left(mid): the first mid elements move to the end
rotate_left_bug_noop(s, mid) == s
rotate_left_bug_right(s, mid) == SubSeq(s, Len(s) - mid + 1, Len(s)) \o SubSeq(s, 1, Len(s) - mid)
rotate_left(s, mid) == SubSeq(s, mid + 1, Len(s)) \o SubSeq(s, 1, mid)

\* [T]::rotate_right(k): the last k elements move to the front
rotate_right_bug_left(s, k) == SubSeq(s, k + 1, Len(s)) \o SubSeq(s, 1, k)
rotate_right(s, k) == SubSeq(s, Len(s) - k + 1, Len(s)) \o SubSeq(s, 1, Len(s) - k)

\* ShiftSliceError::InvalidIndices { source_idx, target_idx, slice_len }
InvalidIndices_bug_swapped(source, target, len) ==
    [source_idx |-> target, target_idx |-> source, slice_len |-> len]
InvalidIndices(source, target, len) ==
    [source_idx |-> source, target_idx |-> target, slice_len |-> len]

\* the outcome of a call that mutates a slice in place: the Result it
\* returns (err = None for Ok(())) and the slice as the call leaves it
Ok(s) == [ok |-> TRUE, err |-> None, seq |-> s]
Err(e, s) == [ok |-> FALSE, err |-> Some(e), seq |-> s]

\* utils.rs shift_slice
shift_slice_bug_inclusive(source, target, s) ==
    IF get_range(source, target, Len(s))
    THEN LET end == Min(target + 1, Len(s))
             sub_slice == SubSeq(s, source + 1, end)
         IN  Ok(SubSeq(s, 1, source)
                  \o rotate_left(sub_slice, Min(1, Len(sub_slice)))
                  \o SubSeq(s, end + 1, Len(s)))
    ELSE IF get_range_inclusive(target, source, Len(s))
    THEN LET sub_slice == SubSeq(s, target + 1, source + 1)
         IN  Ok(SubSeq(s, 1, target)
                  \o rotate_right(sub_slice, Min(1, Len(sub_slice)))
                  \o SubSeq(s, source + 2, Len(s)))
    ELSE Err(InvalidIndices(source, target, Len(s)), s)
shift_slice_bug_dirty_err(source, target, s) ==
    IF get_range(source, target, Len(s))
    THEN LET sub_slice == SubSeq(s, source + 1, target)
         IN  Ok(SubSeq(s, 1, source)
                  \o rotate_left(sub_slice, Min(1, Len(sub_slice)))
                  \o SubSeq(s, target + 1, Len(s)))
    ELSE IF get_range_inclusive(target, source, Len(s))
    THEN LET sub_slice == SubSeq(s, target + 1, source + 1)
         IN  Ok(SubSeq(s, 1, target)
                  \o rotate_right(sub_slice, Min(1, Len(sub_slice)))
                  \o SubSeq(s, source + 2, Len(s)))
    ELSE Err(InvalidIndices(source, target, Len(s)), rotate_left(s, Min(1, Len(s))))
shift_slice_bug_whole(source, target, s) ==
    IF get_range(source, target, Len(s))
    THEN Ok(rotate_left(s, Min(1, Len(s))))
    ELSE IF get_range_inclusive(target, source, Len(s))
    THEN Ok(rotate_right(s, Min(1, Len(s))))
    ELSE Err(InvalidIndices(source, target, Len(s)), s)
shift_slice(source, target, s) ==
    IF get_range(source, target, Len(s))
    THEN LET sub_slice == SubSeq(s, source + 1, target)
         IN  Ok(SubSeq(s, 1, source)
                  \o rotate_left(sub_slice, Min(1, Len(sub_slice)))
                  \o SubSeq(s, target + 1, Len(s)))
    ELSE IF get_range_inclusive(target, source, Len(s))
    THEN LET sub_slice == SubSeq(s, target + 1, source + 1)
         IN  Ok(SubSeq(s, 1, target)
                  \o rotate_right(sub_slice, Min(1, Len(sub_slice)))
                  \o SubSeq(s, source + 2, Len(s)))
    ELSE Err(InvalidIndices(source, target, Len(s)), s)

\* Vec::remove(index) and Vec::insert(index, element)
Remove(s, i) == SubSeq(s, 1, i) \o SubSeq(s, i + 2, Len(s))
Insert(s, i, x) == SubSeq(s, 1, i) \o << x >> \o SubSeq(s, i + 1, Len(s))

\* utils.rs shift_vec, the owned sequence move: a silent no-op on equal or
\* out-of-range indices, otherwise remove at source and insert at the target
\* (one less when the source lies before it)
shift_vec_bug_clamp(source, target, s) ==
    IF source = target \/ source >= Len(s)
    THEN s
    ELSE LET t == IF source < target THEN target - 1 ELSE target
         IN  Insert(Remove(s, source), Min(t, Len(s) - 1), At(s, source))
shift_vec(source, target, s) ==
    IF source = target \/ source >= Len(s) \/ target > Len(s)
    THEN s
    ELSE LET t == IF source < target THEN target - 1 ELSE target
         IN  Insert(Remove(s, source), t, At(s, source))

\* where shift_slice leaves the element of index source (utils.rs, doc
\* comment): target - 1 if target > source, target otherwise
moved_to(source, target) == IF target > source THEN target - 1 ELSE target


\* ------------------------------------------------------- lib.rs, the frame
\* DragIndices { source, target }
DragIndices(s, t) == [source |-> s, target |-> t]

\* DragDropResponse
NoDrag == [kind |-> "NoDrag", indices |-> None]
CurrentDrag(di) == [kind |-> "CurrentDrag", indices |-> Some(di)]
Completed(di) == [kind |-> "Completed", indices |-> Some(di)]

\* items.enumerate().collect(): each item with its backing index
enumerate_bug_one_based(its) == [i \in 1..Len(its) |-> [idx |-> i, item |-> its[i]]]
enumerate(its) == [i \in 1..Len(its) |-> [idx |-> i - 1, item |-> its[i]]]

\* list_ui, lines 103-112: the list as shift_slice leaves it (unchanged when
\* there is no session or shift_slice fails) ...
shifted_list_bug_swapped(di, list) ==
    IF IsSome(di)
    THEN shift_slice(Unwrap(di).target, Unwrap(di).source, list).seq
    ELSE list
shifted_list(di, list) ==
    IF IsSome(di)
    THEN shift_slice(Unwrap(di).source, Unwrap(di).target, list).seq
    ELSE list

\* ... and the indices, clamped to the list length when shift_slice failed
repaired_indices(di, list) ==
    IF IsSome(di) /\ ~shift_slice(Unwrap(di).source, Unwrap(di).target, list).ok
    THEN Some(DragIndices(Min(Unwrap(di).source, Len(list)),
                          Min(Unwrap(di).target, Len(list))))
    ELSE di

\* set_source_index
set_source_index_bug_keep(di, idx) ==
    IF IsSome(di) THEN di ELSE Some(DragIndices(idx, idx))
set_source_index(di, idx) ==
    IF IsSome(di)
    THEN Some([Unwrap(di) EXCEPT !.source = idx])
    ELSE Some(DragIndices(idx, idx))

\* list_ui, lines 118-130: the loop over the displayed entries; an entry whose
\* item the context reports as being dragged sets the source index
RECURSIVE draw_entries(_, _, _)
draw_entries(list, dragged, di) ==
    IF list = << >> THEN di
    ELSE draw_entries(Tail(list), dragged,
                      IF dragged = Some(Head(list).item)
                      THEN set_source_index(di, Head(list).idx)
                      ELSE di)

\* Handle::ui, lines 28-36: a drag that starts on the handle stores the
\* offset top_left - pointer_pos (grab = Some(offset)); otherwise the
\* delta is left alone
handle_ui_bug_reset(delta, grab) == grab
handle_ui(delta, grab) == IF IsSome(grab) THEN grab ELSE delta

\* the height the renderer gives an item's row, in half units so that the
\* centre of a row is a whole number; rows differ in height
Height(item) == 2 * (1 + (item % 2))

\* the rectangles the renderer returns, in display order, stacked downwards
\* from y = 0: (backing index, top, bottom)
RECURSIVE layout(_, _)
layout(list, y) ==
    IF list = << >> THEN << >>
    ELSE << [idx |-> Head(list).idx, top |-> y, bottom |-> y + Height(Head(list).item)] >>
           \o layout(Tail(list), y + Height(Head(list).item))

Abs(x) == IF x < 0 THEN -x ELSE x

\* determine_hovering_index, lines 307-323: the entry whose top is closest to
\* the pointer; a later entry replaces the closest one only if it is strictly
\* closer. The result is None or Some((new_idx, rect)).
closest_entry_bug_inside(rects, new_idx, y, closest) ==
    LET inside == { k \in new_idx..(Len(rects) - 1) :
                        At(rects, k).top <= y /\ y <= At(rects, k).bottom }
    IN  IF inside = {} THEN closest
        ELSE LET k == CHOOSE k \in inside : \A j \in inside : k <= j
             IN  Some([dist |-> Abs(At(rects, k).top - y), new_idx |-> k,
                       rect |-> At(rects, k)])
RECURSIVE closest_entry_bug_last(_, _, _, _)
closest_entry_bug_last(rects, new_idx, y, closest) ==
    IF new_idx >= Len(rects) THEN closest
    ELSE LET rect == At(rects, new_idx)
             entry_dist == Abs(rect.top - y)
             val == Some([dist |-> entry_dist, new_idx |-> new_idx, rect |-> rect])
         IN  closest_entry_bug_last(rects, new_idx + 1, y,
                 IF IsSome(closest)
                 THEN (IF Unwrap(closest).dist >= entry_dist THEN val ELSE closest)
                 ELSE val)
RECURSIVE closest_entry(_, _, _, _)
closest_entry(rects, new_idx, y, closest) ==
    IF new_idx >= Len(rects) THEN closest
    ELSE LET rect == At(rects, new_idx)
             entry_dist == Abs(rect.top - y)
             val == Some([dist |-> entry_dist, new_idx |-> new_idx, rect |-> rect])
         IN  closest_entry(rects, new_idx + 1, y,
                 IF IsSome(closest)
                 THEN (IF Unwrap(closest).dist > entry_dist THEN val ELSE closest)
                 ELSE val)

\* determine_hovering_index
determine_hovering_index_bug_uncorrected(hover_pos, delta, di, list_len, rects) ==
    IF IsSome(hover_pos)
    THEN LET pointer_y == IF IsSome(delta)
                          THEN Unwrap(hover_pos) + Unwrap(delta)
                          ELSE Unwrap(hover_pos)
             closest == closest_entry(rects, 0, pointer_y, None)
         IN  IF IsSome(closest)
             THEN LET rect == Unwrap(closest).rect
                      new_idx == Unwrap(closest).new_idx
                  IN  IF 2 * pointer_y > rect.top + rect.bottom
                      THEN Some(new_idx + 1)
                      ELSE Some(new_idx)
             ELSE None
    ELSE None
determine_hovering_index_bug_unbounded(hover_pos, delta, di, list_len, rects) ==
    IF IsSome(hover_pos)
    THEN LET pointer_y == IF IsSome(delta)
                          THEN Unwrap(hover_pos) + Unwrap(delta)
                          ELSE Unwrap(hover_pos)
             closest == closest_entry(rects, 0, pointer_y, None)
         IN  IF IsSome(closest)
             THEN LET rect == Unwrap(closest).rect
                      new_idx == Unwrap(closest).new_idx
                      hovering_idx == IF 2 * pointer_y > rect.top + rect.bottom
                                      THEN new_idx + 1
                                      ELSE new_idx
                  IN  IF IsSome(di) /\ Unwrap(di).source < hovering_idx
                      THEN Some(hovering_idx + 1)
                      ELSE Some(hovering_idx)
             ELSE None
    ELSE None
determine_hovering_index(hover_pos, delta, di, list_len, rects) ==
    IF IsSome(hover_pos)
    THEN LET pointer_y == IF IsSome(delta)
                          THEN Unwrap(hover_pos) + Unwrap(delta)
                          ELSE Unwrap(hover_pos)
             closest == closest_entry(rects, 0, pointer_y, None)
         IN  IF IsSome(closest)
             THEN LET rect == Unwrap(closest).rect
                      new_idx == Unwrap(closest).new_idx
                      \* pointer_pos.y > rect.center().y
                      hovering_idx == IF 2 * pointer_y > rect.top + rect.bottom
                                      THEN new_idx + 1
                                      ELSE new_idx
                  IN  IF IsSome(di) /\ Unwrap(di).source < hovering_idx
                                    /\ hovering_idx < list_len
                      THEN Some(hovering_idx + 1)
                      ELSE Some(hovering_idx)
             ELSE None
    ELSE None

\* list_ui, lines 136-144: the target follows the hovered index, or falls
\* back to the source
update_target_bug_unhovered(di, list_hovered_over, hovering_idx) ==
    IF IsSome(di)
    THEN IF IsSome(hovering_idx)
         THEN Some([Unwrap(di) EXCEPT !.target = Unwrap(hovering_idx)])
         ELSE Some([Unwrap(di) EXCEPT !.target = Unwrap(di).source])
    ELSE di
update_target(di, list_hovered_over, hovering_idx) ==
    IF IsSome(di)
    THEN IF list_hovered_over /\ IsSome(hovering_idx)
         THEN Some([Unwrap(di) EXCEPT !.target = Unwrap(hovering_idx)])
         ELSE Some([Unwrap(di) EXCEPT !.target = Unwrap(di).source])
    ELSE di

\* list_ui, lines 146-157: the response ...
dragging_response(di, released) ==
    IF IsSome(di)
    THEN IF released THEN Completed(Unwrap(di)) ELSE CurrentDrag(Unwrap(di))
    ELSE NoDrag

\* ... and the session the call leaves behind
indices_after_return_bug_keep(di, released) == di
indices_after_return(di, released) ==
    IF IsSome(di) /\ released THEN None ELSE di

\* no session has been created yet
NoSession == [begun |-> FALSE, completed |-> 0, retargets |-> 0]

\* list_ui as a whole: from the state (di, delta), the caller's items and
\* what the host reports this frame, the values of every step: the indices
\* on entry (pre), after the clamping (repaired), after the entries are drawn
\* (drawn), after the target is set (updated) and on return (indices), the
\* list as displayed, the hovered index, the delta and the response. With
\* an empty list the call returns before it reads what the host reports.
\* (draw_drop_preview only selects how the dragged row is painted; the row
\* takes the same space either way.)
list_ui_bug_resolve_first(di, delta, its, dragged, grab, hover_pos, hovered, released) ==
    LET list_len == Len(its) IN
    IF list_len = 0
    THEN [called |-> FALSE, before |-> NoSession, len |-> 0, pre |-> di,
          dragged |-> None, grab |-> None, hover_pos |-> None, hovered |-> FALSE, released |-> released, list |-> << >>,
          repaired |-> di, drawn |-> di, hovering_idx |-> None, updated |-> di,
          delta |-> delta, indices |-> di, response |-> NoDrag]
    ELSE LET enumerated == enumerate(its)
             list == shifted_list(di, enumerated)
             repaired == repaired_indices(di, enumerated)
             drawn == draw_entries(list, dragged, repaired)
             new_delta == handle_ui(delta, grab)
             hovering_idx == determine_hovering_index(hover_pos, new_delta, repaired,
                                                      list_len, layout(list, 0))
             updated == update_target(drawn, hovered, hovering_idx)
         IN  [called |-> FALSE, before |-> NoSession, len |-> list_len, pre |-> di,
              dragged |-> dragged, grab |-> grab,
              hover_pos |-> hover_pos, hovered |-> hovered, released |-> released,
              list |-> list, repaired |-> repaired, drawn |-> drawn,
              hovering_idx |-> hovering_idx, updated |-> updated,
              delta |-> new_delta,
              indices |-> indices_after_return(updated, released),
              response |-> dragging_response(updated, released)]
list_ui(di, delta, its, dragged, grab, hover_pos, hovered, released) ==
    LET list_len == Len(its) IN
    IF list_len = 0
    THEN [called |-> FALSE, before |-> NoSession, len |-> 0, pre |-> di,
          dragged |-> None, grab |-> None, hover_pos |-> None, hovered |-> FALSE, released |-> released, list |-> << >>,
          repaired |-> di, drawn |-> di, hovering_idx |-> None, updated |-> di,
          delta |-> delta, indices |-> di, response |-> NoDrag]
    ELSE LET enumerated == enumerate(its)
             list == shifted_list(di, enumerated)
             repaired == repaired_indices(di, enumerated)
             drawn == draw_entries(list, dragged, repaired)
             new_delta == handle_ui(delta, grab)
             hovering_idx == determine_hovering_index(hover_pos, new_delta, drawn,
                                                      list_len, layout(list, 0))
             updated == update_target(drawn, hovered, hovering_idx)
         IN  [called |-> FALSE, before |-> NoSession, len |-> list_len, pre |-> di,
              dragged |-> dragged, grab |-> grab,
              hover_pos |-> hover_pos, hovered |-> hovered, released |-> released,
              list |-> list, repaired |-> repaired, drawn |-> drawn,
              hovering_idx |-> hovering_idx, updated |-> updated,
              delta |-> new_delta,
              indices |-> indices_after_return(updated, released),
              response |-> dragging_response(updated, released)]

\* no call of list_ui has just returned
NoFrame == list_ui(None, None, << >>, None, None, None, FALSE, FALSE)

\* examples/simple.rs, lines 58-60: the consumer commits a completed drag
commit(its, resp) ==
    IF resp.kind = "Completed"
    THEN shift_vec(Unwrap(resp.indices).source, Unwrap(resp.indices).target, its)
    ELSE its

\* what the host may report of the pointer in a frame: over the list, at
\* one of a few heights or (a touch device) at no position, or away from it
PointerYs == { 3 * k : k \in 0..MaxItems }
Pointers ==
    { [hovered |-> TRUE, hover_pos |-> Some(y)] : y \in PointerYs }
        \cup { [hovered |-> TRUE, hover_pos |-> None],
               [hovered |-> FALSE, hover_pos |-> None],
               [hovered |-> FALSE, hover_pos |-> Some(0)] }

\* the lists the resolver is tried on: item ids, all different; the item at
\* (1-based) position k is 2k - 1 or 2k, i.e. drawn as a high or a low row,
\* so that every pattern of row heights up to MaxRects rows occurs
MaxRects == MaxItems + 1
item_lists == { [k \in 1..Len(low) |-> 2 * k - low[k]] :
                  low \in SeqsUpTo({0, 1}, MaxRects) \ { << >> } }

\* the sessions it is tried with: none, or any source and target up to the
\* longest list (stale ones for a shorter list included)
sessions == {None} \cup { Some(DragIndices(s, t)) : s, t \in 0..MaxRects }

\* the resolver's arguments for a list drawn under a session: the rows as
\* list_ui lays them out, the pointer anywhere from above the first row to
\* below the last, or not supplied
hover_inputs(its) ==
    { [stage |-> "input", hover_pos |-> hover_pos, delta |-> delta, di |-> di,
       its |-> its, list_len |-> Len(its),
       rects |-> layout(shifted_list(di, enumerate(its)), 0),
       closest |-> None, result |-> None, again |-> None] :
        di \in sessions, delta \in {None, Some(-1)},
        hover_pos \in {None} \cup { Some(y) : y \in -1..(2 * 2 * MaxRects + 1) } }

\* the resolver is not under test
NoHover == [stage |-> "idle", hover_pos |-> None, delta |-> None, di |-> None,
            its |-> << >>, list_len |-> 0, rects |-> << >>, closest |-> None,
            result |-> None, again |-> None]

\* ------------------------------------------------------------------ state
VARIABLES
    \* the rotation primitives applied to drawn inputs
    to_shift,      \* the slice handed in
    source_idx,    \* its arguments
    target_idx,
    stage,         \* "input", "slice" / "vec" (which primitive ran), "back"
    result,        \* the outcome of the first call
    back_target,   \* the target of the move back
    back,          \* the outcome of the move back
    \* the list, frame by frame
    items,         \* the caller's backing sequence (item ids, all different)
    drag_indices,  \* DragDropUi.drag_indices
    drag_delta,    \* DragDropUi.drag_delta (its y component)
    frame,         \* the call of list_ui that has returned and whose
                   \* response the caller has yet to handle: what the host
                   \* reported, the value of every step, the response
    lifecycle,     \* the sessions so far: whether one was ever created, and
                   \* since the latest was created the Completed responses
                   \* and the frames in which its target moved
    \* the hover resolver applied to drawn inputs
    hover          \* its arguments, and its result once it has run

shiftVars == << to_shift, source_idx, target_idx, stage, result, back_target, back >>

frameVars == << items, drag_indices, drag_delta, frame, lifecycle >>

hoverVars == << hover >>

vars == << shiftVars, hoverVars, frameVars >>

\* ------------------------------------------ the rotation primitives, applied
InitShift ==
    /\ to_shift \in SeqsUpTo(1..MaxVal, MaxLen)
    /\ source_idx \in 0..MaxIdx
    /\ target_idx \in 0..MaxIdx
    /\ stage = "input"
    /\ result = Ok(<< >>)
    /\ back_target = 0
    /\ back = Ok(<< >>)
    /\ items = << >>
    /\ drag_indices = None
    /\ drag_delta = None
    /\ frame = NoFrame
    /\ lifecycle = NoSession
    /\ hover = NoHover

CallShiftSlice ==
    /\ stage = "input"
    /\ result' = shift_slice(source_idx, target_idx, to_shift)
    /\ stage' = "slice"
    /\ UNCHANGED << to_shift, source_idx, target_idx, back_target, back, hoverVars, frameVars >>

CallShiftVec ==
    /\ stage = "input"
    /\ result' = Ok(shift_vec(source_idx, target_idx, to_shift))
    /\ stage' = "vec"
    /\ UNCHANGED << to_shift, source_idx, target_idx, back_target, back, hoverVars, frameVars >>

\* the element just moved by shift_slice is moved again, from where it
\* landed, to a target t
CallShiftBack ==
    /\ stage = "slice"
    /\ result.ok
    /\ source_idx < Len(to_shift)
    /\ \E t \in 0..MaxIdx :
        /\ back_target' = t
        /\ back' = shift_slice(moved_to(source_idx, target_idx), t, result.seq)
    /\ stage' = "back"
    /\ UNCHANGED << to_shift, source_idx, target_idx, result, hoverVars, frameVars >>

NextShift == CallShiftSlice \/ CallShiftVec \/ CallShiftBack

SpecShift == InitShift /\ [][NextShift]_vars

\* ------------------------------------------- the hover resolver, applied
InitHover ==
    /\ \E its \in item_lists : hover \in hover_inputs(its)
    /\ to_shift = << >>
    /\ source_idx = 0
    /\ target_idx = 0
    /\ stage = "input"
    /\ result = Ok(<< >>)
    /\ back_target = 0
    /\ back = Ok(<< >>)
    /\ items = << >>
    /\ drag_indices = None
    /\ drag_delta = None
    /\ frame = NoFrame
    /\ lifecycle = NoSession

CallHover ==
    /\ hover.stage = "input"
    /\ hover' = [hover EXCEPT
                    !.stage = "done",
                    \* the entry the loop of lines 309-323 ends with
                    !.closest = IF IsSome(hover.hover_pos)
                                THEN closest_entry(hover.rects, 0,
                                         IF IsSome(hover.delta)
                                         THEN Unwrap(hover.hover_pos) + Unwrap(hover.delta)
                                         ELSE Unwrap(hover.hover_pos),
                                         None)
                                ELSE None,
                    !.result = determine_hovering_index(hover.hover_pos, hover.delta,
                                   hover.di, hover.list_len, hover.rects)]
    /\ UNCHANGED << shiftVars, frameVars >>

\* the frame after: the session is one shift_slice accepts, the list was
\* hovered over, so the index just resolved is the target (list_ui, lines
\* 137-139) the same list is laid out under (lines 103-104), and the pointer
\* has not moved
CallHoverAgain ==
    /\ hover.stage = "done"
    /\ IsSome(hover.di)
    /\ Unwrap(hover.di).source < hover.list_len
    /\ Unwrap(hover.di).target <= hover.list_len
    /\ IsSome(hover.result)
    /\ LET di == Some(DragIndices(Unwrap(hover.di).source, Unwrap(hover.result)))
       IN  hover' = [hover EXCEPT
                       !.stage = "again",
                       !.again = determine_hovering_index(hover.hover_pos, hover.delta,
                                     di, hover.list_len,
                                     layout(shifted_list(di, enumerate(hover.its)), 0))]
    /\ UNCHANGED << shiftVars, frameVars >>

NextHover == CallHover \/ CallHoverAgain

SpecHover == InitHover /\ [][NextHover]_vars

\* ------------------------------------------------------ the list, by frames
\* DragDropUi::default() and the caller's list
Init ==
    /\ items = [i \in 1..MaxItems |-> i]
    /\ drag_indices = None
    /\ drag_delta = None
    /\ frame = NoFrame
    /\ lifecycle = NoSession
    /\ to_shift = << >>
    /\ source_idx = 0
    /\ target_idx = 0
    /\ stage = "input"
    /\ result = Ok(<< >>)
    /\ back_target = 0
    /\ back = Ok(<< >>)
    /\ hover = NoHover

\* the sessions so far, after a call of list_ui
lifecycle_after(lc, f) ==
    LET created == ~IsSome(f.repaired) /\ IsSome(f.drawn)
        before == IF created THEN 0 ELSE lc.completed
        moved == /\ IsSome(f.drawn) /\ f.hovered /\ IsSome(f.hovering_idx)
                 /\ Unwrap(f.updated).target # Unwrap(f.drawn).target
        retargets == IF created THEN 0 ELSE lc.retargets
    IN  [begun |-> lc.begun \/ created,
         completed |-> IF f.response.kind = "Completed" THEN before + 1 ELSE before,
         retargets |-> IF moved THEN Min(MaxRetargets, retargets + 1) ELSE retargets]

\* one displayed frame: the caller hands its list to list_ui, with what the
\* host reports in that frame (the item being dragged if any, a drag
\* starting on its handle with the grab offset, the pointer, whether it was
\* released)
ListUi ==
    /\ ~frame.called
    /\ \E dragged \in {None} \cup { Some(items[i]) : i \in 1..Len(items) },
          offset \in {None, Some(-1)},
          pointer \in Pointers,
          released \in BOOLEAN :
        \E f \in { list_ui(drag_indices, drag_delta, items, dragged,
                           IF IsSome(dragged) THEN offset ELSE None,
                           pointer.hover_pos, pointer.hovered, released) } :
            /\ frame' = [f EXCEPT !.called = TRUE, !.before = lifecycle]
            /\ drag_indices' = f.indices
            /\ drag_delta' = f.delta
            /\ lifecycle' = lifecycle_after(lifecycle, f)
    /\ UNCHANGED << items, shiftVars, hoverVars >>

\* examples/simple.rs, lines 58-60: the caller handles the response, which
\* commits a completed drag, and the frame is over
HandleResponse ==
    /\ frame.called
    /\ items' = commit(items, frame.response)
    /\ frame' = NoFrame
    /\ UNCHANGED << drag_indices, drag_delta, lifecycle, shiftVars, hoverVars >>

\* between frames the caller takes an item out of its list ...
RemoveItem ==
    /\ ~frame.called
    /\ \E i \in 0..(Len(items) - 1) :
        items' = Remove(items, i)
    /\ UNCHANGED << drag_indices, drag_delta, frame, lifecycle, shiftVars, hoverVars >>

\* ... or appends one
PushItem ==
    /\ ~frame.called
    /\ Len(items) < MaxItems
    /\ \E item \in (1..MaxItems) \ { items[i] : i \in 1..Len(items) } :
        items' = Append(items, item)
    /\ UNCHANGED << drag_indices, drag_delta, frame, lifecycle, shiftVars, hoverVars >>

Next == ListUi \/ HandleResponse \/ RemoveItem \/ PushItem

Spec == Init /\ [][Next]_vars

\* ---------------------------------------------------------------- claims
ShiftLen == Len(to_shift)

\* C1: shift_slice with source < target <= len returns Ok, leaves the
\* element of index source at index target - 1, moves every element of an
\* index strictly between source and target one index down, and leaves the
\* elements outside [source, target) where they were.
C1_RotateLeft ==
    (stage = "slice" /\ source_idx < target_idx /\ target_idx <= ShiftLen) =>
        /\ result.ok
        /\ Len(result.seq) = ShiftLen
        /\ At(result.seq, target_idx - 1) = At(to_shift, source_idx)
        /\ \A i \in 0..(ShiftLen - 1) :
            /\ (source_idx < i /\ i < target_idx) =>
                   At(result.seq, i - 1) = At(to_shift, i)
            /\ (i < source_idx \/ i >= target_idx) =>
                   At(result.seq, i) = At(to_shift, i)

C1_Witness ==
    /\ stage = "slice"
    /\ source_idx + 1 < target_idx
    /\ target_idx <= ShiftLen
    /\ result.seq # to_shift

\* C2: shift_slice with target < source < len returns Ok, leaves the
\* element of index source at index target, moves every element of an index
\* in [target, source) one index up, and leaves the elements outside
\* [target, source] where they were.
C2_RotateRight ==
    (stage = "slice" /\ target_idx < source_idx /\ source_idx < ShiftLen) =>
        /\ result.ok
        /\ Len(result.seq) = ShiftLen
        /\ At(result.seq, target_idx) = At(to_shift, source_idx)
        /\ \A i \in 0..(ShiftLen - 1) :
            /\ (target_idx <= i /\ i < source_idx) =>
                   At(result.seq, i + 1) = At(to_shift, i)
            /\ (i < target_idx \/ i > source_idx) =>
                   At(result.seq, i) = At(to_shift, i)

C2_Witness ==
    /\ stage = "slice"
    /\ target_idx + 1 < source_idx
    /\ source_idx < ShiftLen
    /\ result.seq # to_shift

\* C3: shift_slice returns an error if and only if source >= len or
\* target > len.
C3_ErrIffOutOfRange ==
    stage = "slice" =>
        (~result.ok <=> (source_idx >= ShiftLen \/ target_idx > ShiftLen))

\* C4: whenever shift_slice fails, the error is InvalidIndices carrying the
\* source index, the target index and the length of the slice it was given.
C4_ErrorReportsArguments ==
    (stage = "slice" /\ ~result.ok) =>
        /\ IsSome(result.err)
        /\ Unwrap(result.err).source_idx = source_idx
        /\ Unwrap(result.err).target_idx = target_idx
        /\ Unwrap(result.err).slice_len = ShiftLen

C4_Witness ==
    /\ stage = "slice"
    /\ source_idx = 5
    /\ target_idx = 2
    /\ ShiftLen = 3
    /\ result.err = Some([source_idx |-> 5, target_idx |-> 2, slice_len |-> 3])

\* C5: a move with source = target leaves the sequence as it was, for every
\* index, under the strict rotation and under the tolerant move.
C5_EqualIndicesIdentity ==
    (stage \in {"slice", "vec"} /\ source_idx = target_idx) =>
        result.seq = to_shift

C5_Witness ==
    /\ stage = "slice"
    /\ source_idx = target_idx
    /\ source_idx + 1 < ShiftLen
    /\ result.ok
    /\ result.seq = to_shift

\* C6: for source < len and target <= len the strict rotation and the
\* tolerant move leave the same ordering.
C6_SliceAgreesWithVec ==
    (stage = "slice" /\ source_idx < ShiftLen /\ target_idx <= ShiftLen) =>
        /\ result.ok
        /\ result.seq = shift_vec(source_idx, target_idx, to_shift)

C6_Witness ==
    /\ stage = "slice"
    /\ source_idx < ShiftLen
    /\ target_idx = ShiftLen
    /\ result.seq # to_shift
    /\ result.seq = shift_vec(source_idx, target_idx, to_shift)

\* C7 as stated: after a valid move (a, b), moving the element from where it
\* landed back with target a restores the original order.
C7_BackWithTargetSource ==
    (stage = "back" /\ back_target = source_idx) =>
        (back.ok /\ back.seq = to_shift)

\* C7 as amended: the move back restores the original order with target a
\* when a <= b and with target a + 1 when a > b.
C7_BackWithShiftedTarget ==
    (stage = "back"
        /\ back_target = (IF source_idx > target_idx THEN source_idx + 1 ELSE source_idx)) =>
        (back.ok /\ back.seq = to_shift)

C7_Witness ==
    /\ stage = "back"
    /\ source_idx > target_idx
    /\ back_target = source_idx + 1
    /\ result.seq # to_shift
    /\ back.ok
    /\ back.seq = to_shift

\* C8: the tolerant move changes nothing and reports nothing when
\* source = target, or source >= len, or target > len.
C8_VecSilentNoOp ==
    (stage = "vec"
        /\ (source_idx = target_idx \/ source_idx >= ShiftLen \/ target_idx > ShiftLen)) =>
        (result.ok /\ result.seq = to_shift)

C8_Witness ==
    /\ stage = "vec"
    /\ source_idx + 1 < ShiftLen
    /\ target_idx > ShiftLen
    /\ result.seq = to_shift

\* the backing index of the item the host reports as dragged in the frame
\* (the list is drawn in backing order when no session is active)
DraggedIdx == (CHOOSE e \in { frame.list[k] : k \in 1..Len(frame.list) } :
                   e.item = Unwrap(frame.dragged)).idx

\* C9: a drag lifecycle yields exactly one Completed response and ends with
\* no session: while a session is active no Completed response has been
\* returned since it was created, once it has ended exactly one has; the
\* frame that reads a pointer release with a session active returns
\* Completed and clears the session; and a drag reported while no session
\* is active creates a session whose source and target are both the
\* dragged item's index, whatever the sessions before it were.
C9_Lifecycle ==
    /\ IsSome(drag_indices) => (lifecycle.begun /\ lifecycle.completed = 0)
    /\ (~IsSome(drag_indices) /\ lifecycle.begun) => lifecycle.completed = 1
    /\ (frame.called /\ frame.len > 0 /\ IsSome(frame.updated) /\ frame.released) =>
        /\ frame.response = Completed(Unwrap(frame.updated))
        /\ drag_indices = None
    /\ (frame.called /\ frame.len > 0 /\ ~IsSome(frame.repaired) /\ IsSome(frame.dragged)) =>
        frame.drawn = Some(DragIndices(DraggedIdx, DraggedIdx))

\* a session whose target moved in three frames has completed, and a drag
\* on another item has just created the next session
C9_Witness ==
    /\ frame.called
    /\ frame.before = [begun |-> TRUE, completed |-> 1, retargets |-> 3]
    /\ ~IsSome(frame.pre)
    /\ IsSome(frame.dragged)
    /\ frame.drawn = Some(DragIndices(1, 1))
    /\ lifecycle.completed = 0
    /\ IsSome(drag_indices)

\* C10: every call of list_ui in which a session is active and the pointer
\* is released returns Completed with the session's indices as updated in
\* that call and leaves no session, whatever the length of the list.
C10_ReleaseCompletes ==
    (frame.called /\ IsSome(frame.updated) /\ frame.released) =>
        /\ frame.response = Completed(Unwrap(frame.updated))
        /\ drag_indices = None

\* the session's source on entry to the frame, after the clamping, after
\* the entries are drawn and after the target is set
PreSource == Unwrap(frame.pre).source
RepairedSource == Unwrap(frame.repaired).source
DrawnSource == Unwrap(frame.drawn).source
UpdatedSource == Unwrap(frame.updated).source

C12_IndicesWithinList ==
    frame.called =>
        /\ IsSome(drag_indices) =>
              /\ 0 <= Unwrap(drag_indices).source
              /\ Unwrap(drag_indices).source < frame.len
              /\ 0 <= Unwrap(drag_indices).target
              /\ Unwrap(drag_indices).target <= frame.len
        /\ frame.response.kind \in {"CurrentDrag", "Completed"} =>
              /\ 0 <= Unwrap(frame.response.indices).source
              /\ Unwrap(frame.response.indices).source < frame.len
              /\ 0 <= Unwrap(frame.response.indices).target
              /\ Unwrap(frame.response.indices).target <= frame.len

\* C13: in every frame in which a session is active and no pointer release
\* is observed, list_ui returns CurrentDrag with the session's current
\* (source, target), and the session stays active after the call.
C13_ActiveGivesCurrentDrag ==
    (frame.called /\ IsSome(frame.pre) /\ ~frame.released) =>
        /\ IsSome(drag_indices)
        /\ frame.response = CurrentDrag(Unwrap(drag_indices))

\* the position of item it in the caller's sequence, counted from 0
backing_index(it) == CHOOSE i \in 0..(Len(items) - 1) : At(items, i) = it

\* C14: when a drag trigger arrives and no session is active, a session is
\* created with source = target = the triggering item's backing index, its
\* position in the caller's sequence.
C14_TriggerCreatesSession ==
    (frame.called /\ ~IsSome(frame.repaired) /\ IsSome(frame.dragged)) =>
        /\ frame.drawn =
              Some(DragIndices(backing_index(Unwrap(frame.dragged)),
                               backing_index(Unwrap(frame.dragged))))
        /\ lifecycle.begun

\* a session is created on the last item of a list of three
C14_Witness ==
    /\ frame.called
    /\ ~IsSome(frame.pre)
    /\ frame.len = 3
    /\ IsSome(frame.dragged)
    /\ backing_index(Unwrap(frame.dragged)) = 2
    /\ frame.drawn = Some(DragIndices(2, 2))

\* C15 as stated: the target becomes the candidate if the Hover Resolver
\* yields Some(candidate) and the source if it yields None; nothing else
\* influences the new target.
C15_TargetFromResolverAlone ==
    (frame.called /\ IsSome(frame.drawn)) =>
        Unwrap(frame.updated).target =
            (IF IsSome(frame.hovering_idx)
             THEN Unwrap(frame.hovering_idx)
             ELSE DrawnSource)

\* C15 as amended: the target becomes the candidate if the list is hovered
\* over and the Hover Resolver yields Some(candidate); it becomes the source
\* if the list is not hovered over or the resolver yields None. (The update
\* is a step of the frames that draw a list; with no item to draw the call
\* returns before it and the target is left as it was.)
C15_TargetFromHoveredResolver ==
    (frame.called /\ IsSome(frame.drawn)) =>
        Unwrap(frame.updated).target =
            IF frame.len = 0 THEN Unwrap(frame.pre).target ELSE
            (IF frame.hovered /\ IsSome(frame.hovering_idx)
             THEN Unwrap(frame.hovering_idx)
             ELSE DrawnSource)

\* the resolver yields a candidate other than the source while the list is
\* not hovered over, and the target falls back to the source
C15_Witness ==
    /\ frame.called
    /\ IsSome(frame.drawn)
    /\ ~frame.hovered
    /\ IsSome(frame.hovering_idx)
    /\ Unwrap(frame.hovering_idx) # DrawnSource
    /\ Unwrap(frame.updated).target = DrawnSource

\* C16: at the start of a frame, if the session's source or target exceeds
\* the list length len, both are replaced by min(value, len) before the items
\* are drawn and the hover target is resolved; if neither exceeds len the
\* repair leaves the indices unchanged.
C16_RepairClamps ==
    (frame.called /\ IsSome(frame.pre)) =>
        IF Unwrap(frame.pre).source > frame.len \/ Unwrap(frame.pre).target > frame.len
        THEN frame.repaired = Some(DragIndices(Min(Unwrap(frame.pre).source, frame.len),
                                               Min(Unwrap(frame.pre).target, frame.len)))
        ELSE frame.repaired = frame.pre

\* shift_slice rejects the session's indices for the list of this frame
shift_failed(di) ==
    /\ IsSome(di)
    /\ ~shift_slice(Unwrap(di).source, Unwrap(di).target, frame.list).ok

\* C17: once the repair has clamped the indices for a list of length len,
\* shift_slice accepts the clamped (source, target) on a list of that
\* length, so the rotation fails in the frame of the shrink only and not in
\* the following frame on a list of the same length.
C17_ClampedAccepted ==
    (frame.called /\ frame.len > 0 /\ shift_failed(frame.pre)) =>
        /\ ~shift_failed(frame.repaired)
        \* the indices the frame leaves are those the next frame starts with
        /\ ~shift_failed(drag_indices)

\* the backing indices of the entries in the order they are drawn
drawn_indices == [k \in 1..Len(frame.list) |-> frame.list[k].idx]

\* s without its elements equal to x
without(s, x) == SelectSeq(s, LAMBDA e : e # x)

\* C18: in every frame that starts with an active session the items are
\* handed to item_ui in display order, each with its backing index: the
\* element of backing index source stands where shift_slice(source, target)
\* puts it (target - 1 if target > source, target otherwise), the other items
\* keep their backing order; indices shift_slice rejects move nothing.
C18_DisplayOrder ==
    (frame.called /\ IsSome(frame.pre)) =>
        LET s == Unwrap(frame.pre).source
            t == Unwrap(frame.pre).target
        IN  /\ Len(frame.list) = Len(items)
            /\ \A k \in 1..Len(frame.list) :
                  frame.list[k].item = At(items, frame.list[k].idx)
            /\ without(drawn_indices, s) =
                  without([k \in 1..frame.len |-> k - 1], s)
            /\ IF s < frame.len /\ t <= frame.len
               THEN At(drawn_indices, moved_to(s, t)) = s
               ELSE drawn_indices = [k \in 1..frame.len |-> k - 1]

\* the last of three items is drawn first, the first of three drawn last
C18_Witness ==
    /\ frame.called
    /\ frame.len = 3
    /\ \/ frame.pre = Some(DragIndices(2, 0)) /\ drawn_indices = <<2, 0, 1>>
       \/ frame.pre = Some(DragIndices(0, 3)) /\ drawn_indices = <<1, 2, 0>>

\* the height of the pointer the resolver works with
HoverY == IF IsSome(hover.delta)
          THEN Unwrap(hover.hover_pos) + Unwrap(hover.delta)
          ELSE Unwrap(hover.hover_pos)

\* C19: the Hover Resolver returns None if and only if no pointer position
\* is supplied; with a pointer position it returns Some index.
C19_NoneIffNoPointer ==
    hover.stage = "done" =>
        (hover.result = None <=> hover.hover_pos = None)

\* a pointer below the last row, and one above the first, get an index
C19_Witness ==
    /\ hover.stage = "done"
    /\ IsSome(hover.hover_pos)
    /\ \/ HoverY > At(hover.rects, hover.list_len - 1).bottom
       \/ HoverY < At(hover.rects, 0).top
    /\ IsSome(hover.result)

\* C20: every index the Hover Resolver returns lies in [0, len], for every
\* pointer position, every list of rows of a list of length len, and every
\* session source.
C20_IndexWithinList ==
    (hover.stage = "done" /\ IsSome(hover.result)) =>
        /\ 0 <= Unwrap(hover.result)
        /\ Unwrap(hover.result) <= hover.list_len

\* the pointer is in the lower half of the last row, the session's source is
\* above it, and the resolver returns len
C20_Witness ==
    /\ hover.stage = "done"
    /\ hover.list_len = MaxRects
    /\ IsSome(hover.di)
    /\ Unwrap(hover.di).source < hover.list_len - 1
    /\ IsSome(hover.hover_pos)
    /\ 2 * HoverY > At(hover.rects, hover.list_len - 1).top
                      + At(hover.rects, hover.list_len - 1).bottom
    /\ hover.result = Some(hover.list_len)

\* the distance of the pointer to the top of the row drawn at position k
TopDist(k) == Abs(At(hover.rects, k).top - HoverY)

\* the position in display order of the row the resolver's loop selected
Winner == Unwrap(hover.closest).new_idx

\* C21: the Hover Resolver selects the row whose top edge is nearest to the
\* adjusted pointer y, and of several rows at that distance the one that
\* comes first in display order.
C21_NearestTopFirstWins ==
    (hover.stage = "done" /\ IsSome(hover.hover_pos)) =>
        /\ IsSome(hover.closest)
        /\ Winner \in 0..(hover.list_len - 1)
        /\ Unwrap(hover.closest).rect = At(hover.rects, Winner)
        /\ \A k \in 0..(hover.list_len - 1) :
              /\ TopDist(Winner) <= TopDist(k)
              /\ k < Winner => TopDist(Winner) < TopDist(k)

\* two rows are at the same, least distance and the upper one is selected
C21_Witness ==
    /\ hover.stage = "done"
    /\ IsSome(hover.hover_pos)
    /\ IsSome(hover.closest)
    /\ Winner + 1 < hover.list_len
    /\ TopDist(Winner + 1) = TopDist(Winner)

\* the candidate before the correction: the winner's position, or the next
\* if the pointer is below the winner's centre
Candidate ==
    IF 2 * HoverY > At(hover.rects, Winner).top + At(hover.rects, Winner).bottom
    THEN Winner + 1
    ELSE Winner

\* C22: with the winning row at display position p the candidate is p + 1 if
\* the adjusted pointer y is below the row's vertical centre and p otherwise;
\* if a session is active and source < candidate < len the resolver returns
\* candidate + 1, otherwise the candidate.
C22_CandidateAndCorrection ==
    (hover.stage = "done" /\ IsSome(hover.hover_pos)) =>
        hover.result =
            IF /\ IsSome(hover.di)
               /\ Unwrap(hover.di).source < Candidate
               /\ Candidate < hover.list_len
            THEN Some(Candidate + 1)
            ELSE Some(Candidate)

\* four rows, source = 0, the pointer between the top and the centre of the
\* row at position 1: candidate 1, returned as 2
C22_Witness ==
    /\ hover.stage = "done"
    /\ hover.list_len = 4
    /\ IsSome(hover.di)
    /\ Unwrap(hover.di).source = 0
    /\ IsSome(hover.hover_pos)
    /\ HoverY > At(hover.rects, 1).top
    /\ 2 * HoverY < At(hover.rects, 1).top + At(hover.rects, 1).bottom
    /\ Winner = 1
    /\ Candidate = 1
    /\ hover.result = Some(2)

\* C23: during a session, with the pointer, the list and the item sizes
\* unchanged from one frame to the next, the target resolved in the next
\* frame (the items laid out under the current target) is the current target.
C23_TargetStable ==
    hover.stage = "again" => hover.again = hover.result

C25_DeltaWrittenAtDragStart ==
    [][drag_delta' # drag_delta =>
          /\ ~frame.called
          /\ frame'.called
          /\ IsSome(frame'.grab)
          /\ drag_delta' = frame'.grab]_vars

\* the delta of an earlier grab is still there after a frame without a grab
\* in which the indices were clamped, the target moved and the pointer was
\* released
C25_Witness ==
    /\ frame.called
    /\ frame.len > 0
    /\ ~IsSome(frame.grab)
    /\ IsSome(frame.pre)
    /\ frame.repaired # frame.pre
    /\ Unwrap(frame.updated).target # Unwrap(frame.drawn).target
    /\ frame.released
    /\ IsSome(drag_delta)

\* C26: whenever list_ui returns NoDrag no session is active when the call
\* returns, for every list length, the empty list included; and a frame
\* with no session and no drag trigger returns NoDrag and leaves the state
\* as it was.
C26_NoDragMeansNoSession ==
    frame.called =>
        /\ frame.response = NoDrag => drag_indices = None
        /\ (frame.pre = None /\ frame.dragged = None) =>
              /\ frame.response = NoDrag
              /\ drag_indices = None

\* C27: when shift_slice returns an error the sequence handed to it is as it
\* was, the same elements at the same indices, and list_ui then draws the
\* items in backing order in that frame.
C27_ErrLeavesBackingOrder ==
    (frame.called /\ frame.len > 0 /\ shift_failed(frame.pre)) =>
        /\ Len(frame.list) = Len(items)
        /\ \A k \in 1..Len(items) :
              frame.list[k] = [idx |-> k - 1, item |-> items[k]]

\* shift_slice fails on indices that name a move, and the two items left
\* are drawn in backing order
C27_Witness ==
    /\ frame.called
    /\ frame.len = 2
    /\ shift_failed(frame.pre)
    /\ Unwrap(frame.pre).source # Unwrap(frame.pre).target
    /\ drawn_indices = <<0, 1>>

\* C28: shift_slice with target = source + 1 (source < len) returns Ok and
\* leaves the sequence as it was, exactly as with target = source, so
\* indices that differ by target = source + 1 commit no change of order.
C28_NextIndexIsNoOp ==
    (stage = "slice" /\ source_idx < ShiftLen
        /\ target_idx \in {source_idx, source_idx + 1}) =>
        /\ result.ok
        /\ result.seq = to_shift

\* the first of three different elements is moved to target 1 and stays
C28_Witness ==
    /\ stage = "slice"
    /\ to_shift = <<1, 2, 3>>
    /\ source_idx = 0
    /\ target_idx = 1
    /\ result = Ok(<<1, 2, 3>>)

====
